---- MODULE Spec2Model ----
(***************************************************************************)
(* A model of the Lox interpreter of app/main.py: Scanner.scan, the        *)
(* recursive-descent Parser, the tree-walking evaluate/execute methods     *)
(* with the process-wide ENVIRONMENT mapping, and the four modes of main.  *)
(*                                                                         *)
(* Text (source code, lexemes, string values, output lines) is a sequence  *)
(* of one-character strings.  A Python float is modelled as an exact       *)
(* rational num/den in lowest terms with den > 0; the inputs are chosen so *)
(* that every number that arises is exactly representable as a double.     *)
(***************************************************************************)
EXTENDS Integers, Sequences, FiniteSets, TLC

VARIABLES
    command,        \* sys.argv[1]
    source_code,    \* Scanner.source_code
    current,        \* Scanner.current
    line,           \* Scanner.line
    had_error,      \* Scanner.had_error
    tokens,         \* the token list built by Scanner.scan / handed to Parser
    expression,     \* main's local `expression` (modes parse and evaluate)
    statements,     \* main's local `statements` (mode run)
    frames,         \* the active execute() loops: main's loop and one per open block
    ENVIRONMENT,    \* the global ENVIRONMENT dict
    stdout,         \* lines printed to standard output
    stderr,         \* lines printed to standard error
    exit_code,      \* process exit status, meaningful once pc = "done"
    pc              \* position of main: "scan", "parse", "evaluate", "run", "done"

vars == << command, source_code, current, line, had_error, tokens, expression,
           statements, frames, ENVIRONMENT, stdout, stderr, exit_code, pc >>

(***************************************************************************)
(* Runtime values: None, bool, float, str.                                 *)
(***************************************************************************)
None == [t |-> "Nil", b |-> FALSE, num |-> 0, den |-> 1, s |-> <<>>]

Bool(b) == [t |-> "Bool", b |-> b, num |-> 0, den |-> 1, s |-> <<>>]

String(s) == [t |-> "String", b |-> FALSE, num |-> 0, den |-> 1, s |-> s]

Abs(n) == IF n < 0 THEN -n ELSE n

RECURSIVE GCD(_, _)
GCD(a, b) == IF b = 0 THEN a ELSE GCD(b, a % b)

\* the float num/den, in lowest terms with a positive denominator
Float(n, d) ==
    LET g == GCD(Abs(n), Abs(d))
        sgn == IF d < 0 THEN -1 ELSE 1
    IN  [t |-> "Number", b |-> FALSE, num |-> sgn * (n \div g), den |-> Abs(d) \div g, s |-> <<>>]

isinstance_float(v) == v.t = "Number"

isinstance_str(v) == v.t = "String"

\* Python's == on the four value types: bool is a subclass of int, so a bool
\* and a float compare as numbers (True is 1, False is 0).
PyAsNumber(v) == IF v.t = "Bool" THEN (IF v.b THEN Float(1, 1) ELSE Float(0, 1)) ELSE v

PyIsNumeric(v) == v.t \in {"Bool", "Number"}

PyEq(a, b) ==
    IF PyIsNumeric(a) /\ PyIsNumeric(b)
    THEN PyAsNumber(a).num = PyAsNumber(b).num /\ PyAsNumber(a).den = PyAsNumber(b).den
    ELSE IF a.t = "String" /\ b.t = "String" THEN a.s = b.s
    ELSE a.t = "Nil" /\ b.t = "Nil"

\* Python's `not value`: None, False, 0.0 and "" are falsy.
PyNot(v) ==
    CASE v.t = "Nil" -> TRUE
      [] v.t = "Bool" -> ~v.b
      [] v.t = "Number" -> v.num = 0
      [] v.t = "String" -> v.s = <<>>

PyLess(a, b) == a.num * b.den < b.num * a.den

(***************************************************************************)
(* str() of numbers.                                                       *)
(***************************************************************************)
Digit(d) == <<"0", "1", "2", "3", "4", "5", "6", "7", "8", "9">>[d + 1]

RECURSIVE NatStr(_)
NatStr(n) == IF n < 10 THEN <<Digit(n)>> ELSE NatStr(n \div 10) \o <<Digit(n % 10)>>

\* str(int(value))
IntStr(n) == IF n < 0 THEN <<"-">> \o NatStr(-n) ELSE NatStr(n)

RECURSIVE Pow10(_)
Pow10(k) == IF k = 0 THEN 1 ELSE 10 * Pow10(k - 1)

\* the number of decimals of the terminating decimal expansion of 1/den
RECURSIVE Decimals(_, _)
Decimals(den, k) == IF Pow10(k) % den = 0 THEN k ELSE Decimals(den, k + 1)

RECURSIVE PadLeft(_, _)
PadLeft(digits, width) == IF Len(digits) >= width THEN digits ELSE PadLeft(<<"0">> \o digits, width)

\* str(value) of a float: an integral value carries ".0", any other value is
\* its shortest round-tripping decimal (here: its terminating expansion).
FloatStr(v) ==
    IF v.den = 1 THEN IntStr(v.num) \o <<".", "0">>
    ELSE LET k == Decimals(v.den, 1)
             scaled == Abs(v.num) * (Pow10(k) \div v.den)
             frac == PadLeft(NatStr(scaled % Pow10(k)), k)
         IN  (IF v.num < 0 THEN <<"-">> ELSE <<>>) \o NatStr(scaled \div Pow10(k)) \o <<".">> \o frac

\* lox_representation followed by print's str()
lox_representation(value) ==
    CASE value.t = "Bool" -> IF value.b THEN <<"t", "r", "u", "e">> ELSE <<"f", "a", "l", "s", "e">>
      [] value.t = "Nil" -> <<"n", "i", "l">>
      [] value.t = "String" -> value.s
      [] value.t = "Number" -> IF value.den = 1 THEN IntStr(value.num) ELSE FloatStr(value)

(***************************************************************************)
(* Tokens and the AST.                                                     *)
(***************************************************************************)
Token(type, lexeme, literal) == [type |-> type, lexeme |-> lexeme, literal |-> literal]

LiteralExpression(value) == [kind |-> "Literal", value |-> value]

VariableExpression(name) == [kind |-> "Variable", name |-> name]

GroupExpression(e) == [kind |-> "Group", expression |-> e]

UnaryExpression(operator, e) == [kind |-> "Unary", operator |-> operator, expression |-> e]

BinaryExpression(operator, left, right) ==
    [kind |-> "Binary", operator |-> operator, left |-> left, right |-> right]

AssignmentExpression(name, e) == [kind |-> "Assignment", name |-> name, expression |-> e]

PrintStatement(e) == [kind |-> "Print", expression |-> e]

ExpressionStatement(e) == [kind |-> "Expression", expression |-> e]

\* VariableDeclarationStatement(name, expression); has_init is FALSE for `expression is None`
VariableDeclarationStatement(name, has_init, e) ==
    [kind |-> "VarDecl", name |-> name, has_init |-> has_init, expression |-> e]

BlockStatement(stmts) == [kind |-> "Block", statements |-> stmts]

(***************************************************************************)
(* Expression.evaluate.  The result carries the value, the environment     *)
(* after the evaluation, and how the evaluation ended:                     *)
(*   "ok"     a value was returned;                                        *)
(*   "exit70" a message was printed to stderr and exit(70) was called;     *)
(*   "raise"  a Python exception escaped (main catches none).              *)
(***************************************************************************)
\* a line on standard error: "[line L] " when line > 0, the message, its argument
Report(line_no, msg, arg) == [line |-> line_no, msg |-> msg, arg |-> arg]

NoError == Report(0, "", <<>>)

Ok(value, env) == [status |-> "ok", value |-> value, env |-> env, err |-> NoError]

Exit70(msg, arg, env) ==
    [status |-> "exit70", value |-> None, env |-> env, err |-> Report(0, msg, arg)]

Raise(exc, env) ==
    [status |-> "raise", value |-> None, env |-> env, err |-> Report(0, exc, <<>>)]

\* ENVIRONMENT[name] = value
SetItem(env, name, value) ==
    [n \in (DOMAIN env) \cup {name} |-> IF n = name THEN value ELSE env[n]]

NumbersMsg == "Operands must be numbers."

\* the operator dispatch of BinaryExpression.evaluate, both operand values known
BinaryOp(type, l, r, env) ==
    LET both_float == isinstance_float(l) /\ isinstance_float(r)
    IN  CASE type = "PLUS" ->
               IF ~(isinstance_float(l) \/ isinstance_str(l))
                  \/ ~(isinstance_float(r) \/ isinstance_str(r)) \/ l.t # r.t
               THEN Exit70("Operands must be two numbers or two strings.", <<>>, env)
               ELSE IF isinstance_str(l) THEN Ok(String(l.s \o r.s), env)
               ELSE Ok(Float(l.num * r.den + r.num * l.den, l.den * r.den), env)
          [] type = "MINUS" ->
               IF ~both_float THEN Exit70(NumbersMsg, <<>>, env)
               ELSE Ok(Float(l.num * r.den - r.num * l.den, l.den * r.den), env)
          [] type = "STAR" ->
               IF ~both_float THEN Exit70(NumbersMsg, <<>>, env)
               ELSE Ok(Float(l.num * r.num, l.den * r.den), env)
          [] type = "SLASH" ->
               IF ~both_float THEN Exit70(NumbersMsg, <<>>, env)
               ELSE IF r.num = 0 THEN Raise("ZeroDivisionError", env)
               ELSE Ok(Float(l.num * r.den, l.den * r.num), env)
          [] type = "BANG_EQUAL" -> Ok(Bool(~PyEq(l, r)), env)
          [] type = "EQUAL_EQUAL" -> Ok(Bool(PyEq(l, r)), env)
          [] type = "GREATER" ->
               IF ~both_float THEN Exit70(NumbersMsg, <<>>, env) ELSE Ok(Bool(PyLess(r, l)), env)
          [] type = "GREATER_EQUAL" ->
               IF ~both_float THEN Exit70(NumbersMsg, <<>>, env) ELSE Ok(Bool(~PyLess(l, r)), env)
          [] type = "LESS" ->
               IF ~both_float THEN Exit70(NumbersMsg, <<>>, env) ELSE Ok(Bool(PyLess(l, r)), env)
          [] type = "LESS_EQUAL" ->
               IF ~both_float THEN Exit70(NumbersMsg, <<>>, env) ELSE Ok(Bool(~PyLess(r, l)), env)
          [] OTHER -> Ok(None, env)

\* the operator dispatch of UnaryExpression.evaluate, the operand value known
UnaryOp(type, value, env) ==
    IF type = "MINUS"
    THEN IF ~isinstance_float(value) THEN Exit70("Operand must be a number.", <<>>, env)
         ELSE Ok(Float(-1 * value.num, value.den), env)
    ELSE Ok(Bool(PyNot(value)), env)

\* VariableExpression.evaluate
VariableLookup(name, env) ==
    IF name \notin DOMAIN env THEN Exit70("Undefined variable", name, env)
    ELSE Ok(env[name], env)

\* AssignmentExpression.evaluate, the right-hand value known
AssignTo(name, value, env) ==
    LET env2 == SetItem(env, name, value) IN Ok(env2[name], env2)

RECURSIVE evaluate(_, _)
evaluate(e, env) ==
    CASE e.kind = "Literal" -> Ok(e.value, env)
      [] e.kind = "Variable" -> VariableLookup(e.name, env)
      [] e.kind = "Group" -> evaluate(e.expression, env)
      [] e.kind = "Unary" ->
           LET v == evaluate(e.expression, env)
           IN  IF v.status # "ok" THEN v ELSE UnaryOp(e.operator.type, v.value, v.env)
      [] e.kind = "Binary" ->
           LET l == evaluate(e.left, env)
           IN  IF l.status # "ok" THEN l
               ELSE LET r == evaluate(e.right, l.env)
                    IN  IF r.status # "ok" THEN r
                        ELSE BinaryOp(e.operator.type, l.value, r.value, r.env)
      [] e.kind = "Assignment" ->
           LET v == evaluate(e.expression, env)
           IN  IF v.status # "ok" THEN v ELSE AssignTo(e.name, v.value, v.env)

(***************************************************************************)
(* Statement.execute and the modes evaluate and run of main.  frames is    *)
(* the stack of running statement loops: frames[1] is the loop of main     *)
(* over `statements`, every further frame is the loop of one               *)
(* BlockStatement.execute together with its local parent_environment.      *)
(***************************************************************************)
EmptyEnvironment == [n \in {} |-> None]

Frame(stmts, parent_environment) ==
    [statements |-> stmts, index |-> 1, parent_environment |-> parent_environment]

Top == frames[Len(frames)]

HasStatement == pc = "run" /\ frames # <<>> /\ Top.index <= Len(Top.statements)

Cur == Top.statements[Top.index]

\* the enclosing loop moves on to its next statement
Advance == [frames EXCEPT ![Len(frames)].index = @ + 1]

\* the report of an uncaught exception: the traceback and the exception's name
Traceback(r) == Report(0, "Traceback (most recent call last)", <<r.err.msg>>)

\* a faulty variant: a runtime error is reported and the program goes on
OutcomeErrorGoesOn(r, out, next_frames, next_pc) ==
    /\ ENVIRONMENT' = r.env
    /\ stdout' = (IF r.status = "ok" THEN stdout \o out ELSE stdout)
    /\ stderr' = (IF r.status = "ok" THEN stderr ELSE Append(stderr, r.err))
    /\ frames' = next_frames
    /\ pc' = next_pc
    /\ UNCHANGED exit_code

\* what main does with the outcome r of an evaluation: go on (out is the line
\* printed, or <<>> for none), exit(70), or die of the uncaught exception
Outcome(r, out, next_frames, next_pc) ==
    /\ ENVIRONMENT' = r.env
    /\ CASE r.status = "ok" ->
              /\ stdout' = stdout \o out
              /\ frames' = next_frames
              /\ pc' = next_pc
              /\ UNCHANGED << stderr, exit_code >>
         [] r.status = "exit70" ->
              /\ stderr' = Append(stderr, r.err)
              /\ exit_code' = 70
              /\ pc' = "done"
              /\ UNCHANGED << stdout, frames >>
         [] r.status = "raise" ->
              /\ stderr' = Append(stderr, Traceback(r))
              /\ exit_code' = 1
              /\ pc' = "done"
              /\ UNCHANGED << stdout, frames >>

ScannerVars == << source_code, current, line, had_error, tokens >>

\* PrintStatement.execute
ExecutePrint ==
    /\ HasStatement
    /\ Cur.kind = "Print"
    /\ LET r == evaluate(Cur.expression, ENVIRONMENT)
       IN  Outcome(r, << lox_representation(r.value) >>, Advance, "run")
    /\ UNCHANGED << command, ScannerVars, expression, statements >>

\* ExpressionStatement.execute
ExecuteExpression ==
    /\ HasStatement
    /\ Cur.kind = "Expression"
    /\ Outcome(evaluate(Cur.expression, ENVIRONMENT), <<>>, Advance, "run")
    /\ UNCHANGED << command, ScannerVars, expression, statements >>

\* VariableDeclarationStatement.execute
ExecuteVariableDeclaration ==
    /\ HasStatement
    /\ Cur.kind = "VarDecl"
    /\ LET r == IF ~Cur.has_init THEN Ok(None, ENVIRONMENT)
                ELSE evaluate(Cur.expression, ENVIRONMENT)
           bound == IF r.status = "ok" THEN [r EXCEPT !.env = SetItem(r.env, Cur.name, r.value)]
                    ELSE r
       IN  Outcome(bound, <<>>, Advance, "run")
    /\ UNCHANGED << command, ScannerVars, expression, statements >>

\* BlockStatement.execute up to its loop: parent_environment = ENVIRONMENT;
\* ENVIRONMENT = {**parent_environment}
ExecuteBlockEnter ==
    /\ HasStatement
    /\ Cur.kind = "Block"
    /\ frames' = Append(frames, Frame(Cur.statements, ENVIRONMENT))
    /\ ENVIRONMENT' = [n \in DOMAIN ENVIRONMENT |-> ENVIRONMENT[n]]
    /\ UNCHANGED << command, ScannerVars, expression, statements, stdout, stderr, exit_code, pc >>

\* a faulty variant: the block's environment is kept on exit
BlockExitEnvironmentKept == ENVIRONMENT

\* BlockStatement.execute after its loop: ENVIRONMENT = parent_environment
BlockExitEnvironment == Top.parent_environment

ExecuteBlockExit ==
    /\ pc = "run"
    /\ Len(frames) > 1
    /\ Top.index > Len(Top.statements)
    /\ ENVIRONMENT' = BlockExitEnvironment
    /\ frames' = [SubSeq(frames, 1, Len(frames) - 1) EXCEPT ![Len(frames) - 1].index = @ + 1]
    /\ UNCHANGED << command, ScannerVars, expression, statements, stdout, stderr, exit_code, pc >>

\* main, mode run: the loop over statements is over; return
RunReturn ==
    /\ pc = "run"
    /\ Len(frames) = 1
    /\ Top.index > Len(Top.statements)
    /\ pc' = "done"
    /\ exit_code' = 0
    /\ UNCHANGED << command, ScannerVars, expression, statements, frames, ENVIRONMENT,
                    stdout, stderr >>

\* main, mode evaluate: print(lox_representation(expression.evaluate())); return
EvaluateMode ==
    /\ pc = "evaluate"
    /\ LET r == evaluate(expression, ENVIRONMENT)
       IN  Outcome(r, << lox_representation(r.value) >>, frames, "done")
    /\ UNCHANGED << command, ScannerVars, expression, statements >>

(***************************************************************************)
(* Inputs of the modes evaluate and run: the ASTs the parser hands over.   *)
(***************************************************************************)
MaxItems == 5

Tok(type, lexeme) == Token(type, lexeme, None)

EqualityOperators == { Tok("BANG_EQUAL", <<"!", "=">>), Tok("EQUAL_EQUAL", <<"=", "=">>) }

ComparisonOperators ==
    { Tok("GREATER", <<">">>), Tok("GREATER_EQUAL", <<">", "=">>),
      Tok("LESS", <<"<">>), Tok("LESS_EQUAL", <<"<", "=">>) }

TermOperators == { Tok("PLUS", <<"+">>), Tok("MINUS", <<"-">>) }

FactorOperators == { Tok("STAR", <<"*">>), Tok("SLASH", <<"/">>) }

BinaryOperators == EqualityOperators \cup ComparisonOperators \cup TermOperators \cup FactorOperators

UnaryOperators == { Tok("BANG", <<"!">>), Tok("MINUS", <<"-">>) }

X == <<"x">>

Num(n) == LiteralExpression(Float(n, 1))

LiteralValues ==
    { None, Bool(TRUE), Bool(FALSE), Float(0, 1), Float(1, 1), Float(2, 1),
      String(<<>>), String(<<"a">>) }

Atoms == { LiteralExpression(v) : v \in LiteralValues } \cup { VariableExpression(X) }

Applications(operands) ==
    { UnaryExpression(op, e) : op \in UnaryOperators, e \in operands }
      \cup { GroupExpression(e) : e \in operands }
      \cup { AssignmentExpression(X, e) : e \in operands }

\* every expression with one operator over atoms, and every unary, group,
\* assignment and binary (with an atom to its right) expression over those
EvaluateInputs ==
    LET one == Atoms \cup Applications(Atoms)
                 \cup { BinaryExpression(op, l, r) : op \in BinaryOperators, l \in Atoms, r \in Atoms }
    IN  one \cup Applications(one)

SimpleStatements ==
    << VariableDeclarationStatement(X, TRUE, Num(10)),
       VariableDeclarationStatement(X, TRUE, Num(20)),
       VariableDeclarationStatement(X, FALSE, LiteralExpression(None)),
       ExpressionStatement(AssignmentExpression(X, Num(0))),
       PrintStatement(VariableExpression(X)),
       PrintStatement(BinaryExpression(Tok("SLASH", <<"/">>), Num(1), VariableExpression(X))) >>

\* A program text is a sequence of items: the number of a simple statement,
\* OpenItem for "{" or CloseItem for "}".
OpenItem == Len(SimpleStatements) + 1

CloseItem == Len(SimpleStatements) + 2

RECURSIVE Balanced(_, _, _)
Balanced(items, i, depth) ==
    IF i > Len(items) THEN depth = 0
    ELSE IF items[i] = OpenItem THEN Balanced(items, i + 1, depth + 1)
    ELSE IF items[i] = CloseItem THEN depth > 0 /\ Balanced(items, i + 1, depth - 1)
    ELSE Balanced(items, i + 1, depth)

\* the statement list written from item i up to the closing brace or the end
RECURSIVE StatementsFrom(_, _)
StatementsFrom(items, i) ==
    IF i > Len(items) \/ items[i] = CloseItem THEN [statements |-> <<>>, next |-> i]
    ELSE IF items[i] = OpenItem
         THEN LET body == StatementsFrom(items, i + 1)
                  rest == StatementsFrom(items, body.next + 1)
              IN  [statements |-> << BlockStatement(body.statements) >> \o rest.statements,
                   next |-> rest.next]
         ELSE LET rest == StatementsFrom(items, i + 1)
              IN  [statements |-> << SimpleStatements[items[i]] >> \o rest.statements,
                   next |-> rest.next]

\* the concrete run-mode scenarios of the specification
Scenario3 ==
    << PrintStatement(BinaryExpression(Tok("PLUS", <<"+">>), Num(1),
                        BinaryExpression(Tok("STAR", <<"*">>), Num(2), Num(3)))) >>

Scenario4 ==
    << VariableDeclarationStatement(X, TRUE, Num(10)),
       BlockStatement(<< VariableDeclarationStatement(X, TRUE, Num(20)),
                         PrintStatement(VariableExpression(X)) >>),
       PrintStatement(VariableExpression(X)) >>

Scenario5 ==
    << ExpressionStatement(UnaryExpression(Tok("MINUS", <<"-">>),
                             LiteralExpression(String(<<"a">>)))) >>

Scenario8 ==
    << PrintStatement(BinaryExpression(Tok("EQUAL_EQUAL", <<"=", "=">>),
                        LiteralExpression(None), LiteralExpression(Bool(FALSE)))) >>

Scenarios == { Scenario3, Scenario4, Scenario5, Scenario8 }

InitCommon ==
    /\ source_code = <<>>
    /\ current = 0
    /\ line = 1
    /\ had_error = FALSE
    /\ tokens = <<>>
    /\ ENVIRONMENT = EmptyEnvironment
    /\ stdout = <<>>
    /\ stderr = <<>>
    /\ exit_code = 0

\* main has scanned and parsed without error and is about to evaluate or run
Init ==
    /\ InitCommon
    /\ \/ /\ command = "evaluate"
          /\ expression \in EvaluateInputs
          /\ statements = <<>>
          /\ frames = <<>>
          /\ pc = "evaluate"
       \/ /\ command = "run"
          /\ expression = LiteralExpression(None)
          /\ \/ statements \in Scenarios
             \/ \E n \in 0..MaxItems : \E items \in [1..n -> 1..CloseItem] :
                   /\ Balanced(items, 1, 0)
                   /\ statements = StatementsFrom(items, 1).statements
          /\ frames = << Frame(statements, EmptyEnvironment) >>
          /\ pc = "run"

Next ==
    \/ ExecutePrint
    \/ ExecuteExpression
    \/ ExecuteVariableDeclaration
    \/ ExecuteBlockEnter
    \/ ExecuteBlockExit
    \/ RunReturn
    \/ EvaluateMode

Spec == Init /\ [][Next]_vars

(***************************************************************************)
(* Properties of the modes run and evaluate.                               *)
(***************************************************************************)
Text(value) == lox_representation(value)

\* ExecuteBlockExit is the step about to be taken
BlockExiting == pc = "run" /\ Len(frames) > 1 /\ Top.index > Len(Top.statements)

\* the names a statement list declares with var, nested blocks not included
DeclaredIn(stmts) == { stmts[i].name : i \in { j \in DOMAIN stmts : stmts[j].kind = "VarDecl" } }

\* the names an expression assigns to
RECURSIVE AssignedIn(_)
AssignedIn(e) ==
    CASE e.kind = "Assignment" -> { e.name } \cup AssignedIn(e.expression)
      [] e.kind \in { "Group", "Unary" } -> AssignedIn(e.expression)
      [] e.kind = "Binary" -> AssignedIn(e.left) \cup AssignedIn(e.right)
      [] OTHER -> {}

\* the names a statement may bind in the scope it is executed in
BoundBy(stmt) ==
    CASE stmt.kind = "Block" -> {}
      [] stmt.kind = "VarDecl" -> { stmt.name } \cup AssignedIn(stmt.expression)
      [] OTHER -> AssignedIn(stmt.expression)

Min(a, b) == IF a < b THEN a ELSE b

\* the statements of frame f that have been executed, the one that ended the
\* program included
Executed(f) ==
    SubSeq(f.statements, 1,
           IF pc = "done" THEN Min(f.index, Len(f.statements)) ELSE f.index - 1)

\* the statements of frame f that have been completed
Completed(f) == SubSeq(f.statements, 1, f.index - 1)

\* the number of print statements in a statement list, nested blocks included
RECURSIVE CountPrints(_)
CountPrints(stmts) ==
    IF stmts = <<>> THEN 0
    ELSE (CASE Head(stmts).kind = "Print" -> 1
            [] Head(stmts).kind = "Block" -> CountPrints(Head(stmts).statements)
            [] OTHER -> 0) + CountPrints(Tail(stmts))

RECURSIVE PrintsCompleted(_)
PrintsCompleted(fs) ==
    IF fs = <<>> THEN 0 ELSE CountPrints(Completed(Head(fs))) + PrintsCompleted(Tail(fs))

\* C1: when ExecuteBlockExit ends a block, every variable of the enclosing
\* scope that the block does not declare with var has, after the exit, the
\* value it had at the end of the block (the value assigned inside the block).
C1_AssignedInBlockSurvivesExit ==
    [][ BlockExiting =>
          \A n \in DOMAIN Top.parent_environment :
              n \notin DeclaredIn(Top.statements) =>
                  n \in DOMAIN ENVIRONMENT' /\ ENVIRONMENT'[n] = ENVIRONMENT[n] ]_vars

\* the statement or expression about to be evaluated is name = rhs with name unbound
UnboundAssignment(e) == e.kind = "Assignment" /\ e.name \notin DOMAIN ENVIRONMENT

EvaluatingUnboundAssignment ==
    \/ pc = "evaluate" /\ UnboundAssignment(expression)
    \/ HasStatement /\ Cur.kind = "Expression" /\ UnboundAssignment(Cur.expression)

AssignmentTarget == IF pc = "evaluate" THEN expression.name ELSE Cur.expression.name

\* C2: the step that evaluates name = expr with name bound in no scope ends
\* the program with the undefined-variable error and exit code 70, and leaves
\* name unbound.
C2_UnboundAssignmentIsError ==
    [][ EvaluatingUnboundAssignment =>
          /\ pc' = "done"
          /\ exit_code' = 70
          /\ stderr' = Append(stderr, Report(0, "Undefined variable", AssignmentTarget))
          /\ AssignmentTarget \notin DOMAIN ENVIRONMENT' ]_vars

UndefinedVariable(name) == Report(0, "Undefined variable", name)

\* the names bound by the executed statements of the open scopes
RECURSIVE BoundByExecuted(_)
BoundByExecuted(fs) ==
    IF fs = <<>> THEN {}
    ELSE UNION { BoundBy(Executed(Head(fs))[i]) : i \in DOMAIN Executed(Head(fs)) }
           \cup BoundByExecuted(Tail(fs))

\* every visible name was bound by an executed statement of a scope that is
\* still open: nothing bound inside a block that has ended is visible
OnlyOpenScopesVisible == command = "run" => DOMAIN ENVIRONMENT \subseteq BoundByExecuted(frames)

\* the exit of a block undoes its declarations: a name it declares is unbound
\* again, or has again the value of the enclosing scope
BlockExitUndoesDeclarations ==
    BlockExiting =>
        \A n \in DeclaredIn(Top.statements) :
            IF n \in DOMAIN Top.parent_environment
            THEN n \in DOMAIN ENVIRONMENT' /\ ENVIRONMENT'[n] = Top.parent_environment[n]
            ELSE n \notin DOMAIN ENVIRONMENT'

\* reading a name that is not visible is the undefined-variable error, exit 70
UnboundReadIsError ==
    (HasStatement /\ Cur.kind = "Print" /\ Cur.expression.kind = "Variable"
       /\ Cur.expression.name \notin DOMAIN ENVIRONMENT) =>
        /\ pc' = "done"
        /\ exit_code' = 70
        /\ stderr' = Append(stderr, UndefinedVariable(Cur.expression.name))
        /\ stdout' = stdout

\* var x = 10; { var x = 20; print x; } print x;  prints 20 then 10, exit 0
Scenario4Result ==
    (statements = Scenario4 /\ pc = "done") =>
        stdout = << <<"2", "0">>, <<"1", "0">> >> /\ stderr = <<>> /\ exit_code = 0

\* C3: after a block, the declarations of the block are undone: a variable
\* declared with var inside it that was unbound outside is not visible (a read
\* is the undefined-variable error, exit 70), a shadowed name has its outer
\* value again, and Scenario4 prints 20 then 10.
C3_BlockRestoresDeclarations ==
    /\ [](OnlyOpenScopesVisible /\ Scenario4Result)
    /\ [][BlockExitUndoesDeclarations /\ UnboundReadIsError]_vars

\* a block that declared x has ended, and the read of x after it failed
C3_Witness_RestoredAfterBlock ==
    /\ command = "run" /\ pc = "done" /\ exit_code = 70
    /\ Len(frames) = 1 /\ Top.index = 2
    /\ statements[1].kind = "Block"
    /\ X \in DeclaredIn(statements[1].statements)
    /\ statements[2] = PrintStatement(VariableExpression(X))
    /\ stderr = << UndefinedVariable(X) >>

RuntimeErrorMessages ==
    { "Undefined variable", "Operand must be a number.", NumbersMsg,
      "Operands must be two numbers or two strings." }

\* the evaluation the statement about to be executed starts with
CurEvaluation ==
    IF Cur.kind = "VarDecl" /\ ~Cur.has_init THEN Ok(None, ENVIRONMENT)
    ELSE evaluate(Cur.expression, ENVIRONMENT)

\* the output so far is that of the print statements completed so far
PrintsInOrder == command = "run" => Len(stdout) = PrintsCompleted(frames)

\* exit code 70 comes with exactly one report, of a runtime error, from the
\* statement that failed
ReportedOnce ==
    (command = "run" /\ pc = "done" /\ exit_code = 70) =>
        /\ Len(stderr) = 1
        /\ stderr[1].msg \in RuntimeErrorMessages
        /\ Top.index <= Len(Top.statements)
        /\ CurEvaluation.status = "exit70"

\* a statement whose evaluation hits a runtime error ends the program there:
\* exit code 70, one report, no output
ErrorTerminates ==
    (HasStatement /\ Cur.kind # "Block" /\ CurEvaluation.status = "exit70") =>
        /\ pc' = "done"
        /\ exit_code' = 70
        /\ stderr' = Append(stderr, CurEvaluation.err)
        /\ stdout' = stdout
        /\ frames' = frames

\* the statements of a scope are executed one after the other
InSourceOrder ==
    (pc = "run" /\ pc' = "run" /\ Len(frames') = Len(frames)) =>
        /\ frames' = Advance
        /\ SubSeq(stdout', 1, Len(stdout)) = stdout

\* C4: statements execute in source order; a runtime error is reported once
\* and ends the program at once with exit code 70: the prints completed
\* before it are in the output, and no step is taken after it.
C4_RuntimeErrorTerminates ==
    /\ [](PrintsInOrder /\ ReportedOnce)
    /\ [][ErrorTerminates /\ InSourceOrder /\ pc # "done"]_vars

\* a print was completed, then a type mismatch ended the program before its
\* last statement
C4_Witness_ErrorAfterPrint ==
    /\ command = "run" /\ pc = "done" /\ exit_code = 70
    /\ Len(stdout) >= 1
    /\ stderr = << Report(0, NumbersMsg, <<>>) >>
    /\ Len(frames) = 1 /\ Top.index < Len(Top.statements)

IsLiteral(e) == e.kind = "Literal"

EvaluatedInEvaluateMode == command = "evaluate" /\ pc = "done"

\* C6: == of two literals of different runtime types is false and != of them
\* is true (mode evaluate prints false, respectively true).
C6_DifferentTypesNeverEqual ==
    (/\ EvaluatedInEvaluateMode
     /\ expression.kind = "Binary"
     /\ expression.operator.type \in { "EQUAL_EQUAL", "BANG_EQUAL" }
     /\ IsLiteral(expression.left) /\ IsLiteral(expression.right)
     /\ expression.left.value.t # expression.right.value.t) =>
        /\ exit_code = 0
        /\ stdout = << Text(Bool(expression.operator.type = "BANG_EQUAL")) >>

\* Lox truthiness: only false and nil are falsy
Truthy(v) == ~(v.t = "Nil" \/ (v.t = "Bool" /\ ~v.b))

\* C7: !x of a literal x is true exactly when x is false or nil (mode
\* evaluate prints the negation of the truthiness of x).
C7_BangNegatesTruthiness ==
    (/\ EvaluatedInEvaluateMode
     /\ expression.kind = "Unary"
     /\ expression.operator.type = "BANG"
     /\ IsLiteral(expression.expression)) =>
        /\ exit_code = 0
        /\ stdout = << Text(Bool(~Truthy(expression.expression.value))) >>

\* e is a / b, its operands evaluate to numbers in env, and b is zero
DividesByZero(e, env) ==
    /\ e.kind = "Binary"
    /\ e.operator.type = "SLASH"
    /\ LET l == evaluate(e.left, env)
       IN  /\ l.status = "ok" /\ isinstance_float(l.value)
           /\ LET r == evaluate(e.right, l.env)
              IN  r.status = "ok" /\ isinstance_float(r.value) /\ r.value.num = 0

\* C10: a division of a number by zero is no error: in mode evaluate the
\* program ends with exit code 0 and no report, and in mode run the program
\* never ends at a print statement that divides by zero.
C10_DivisionByZeroIsNoError ==
    /\ (EvaluatedInEvaluateMode /\ DividesByZero(expression, EmptyEnvironment)) =>
           exit_code = 0 /\ stderr = <<>> /\ Len(stdout) = 1
    /\ (command = "run" /\ pc = "done" /\ Top.index <= Len(Top.statements)
          /\ Cur.kind = "Print") =>
           ~DividesByZero(Cur.expression, ENVIRONMENT)

(***************************************************************************)
(* Scanner.scan, and the mode tokenize of main.  current is the 0-based    *)
(* Python index; source_code[current + 1] is the character it points at.   *)
(***************************************************************************)
Digits == { "0", "1", "2", "3", "4", "5", "6", "7", "8", "9" }

Letters ==
    { "a", "b", "c", "d", "e", "f", "g", "h", "i", "j", "k", "l", "m",
      "n", "o", "p", "q", "r", "s", "t", "u", "v", "w", "x", "y", "z",
      "A", "B", "C", "D", "E", "F", "G", "H", "I", "J", "K", "L", "M",
      "N", "O", "P", "Q", "R", "S", "T", "U", "V", "W", "X", "Y", "Z" }

\* the single-character tokens, "/" apart
Punctuation ==
    [c \in { "(", ")", "{", "}", "*", ".", ",", "+", "-", ";" } |->
        CASE c = "(" -> "LEFT_PAREN"  [] c = ")" -> "RIGHT_PAREN"
          [] c = "{" -> "LEFT_BRACE"  [] c = "}" -> "RIGHT_BRACE"
          [] c = "*" -> "STAR"        [] c = "." -> "DOT"
          [] c = "," -> "COMMA"       [] c = "+" -> "PLUS"
          [] c = "-" -> "MINUS"       [] c = ";" -> "SEMICOLON"]

\* the characters that make another token when "=" follows: [alone, with "="]
Operators ==
    [c \in { "=", "!", "<", ">" } |->
        CASE c = "=" -> << "EQUAL", "EQUAL_EQUAL" >>
          [] c = "!" -> << "BANG", "BANG_EQUAL" >>
          [] c = "<" -> << "LESS", "LESS_EQUAL" >>
          [] c = ">" -> << "GREATER", "GREATER_EQUAL" >>]

Chars(w) ==
    CASE w = "and" -> <<"a", "n", "d">>            [] w = "class" -> <<"c", "l", "a", "s", "s">>
      [] w = "else" -> <<"e", "l", "s", "e">>      [] w = "false" -> <<"f", "a", "l", "s", "e">>
      [] w = "for" -> <<"f", "o", "r">>            [] w = "fun" -> <<"f", "u", "n">>
      [] w = "if" -> <<"i", "f">>                  [] w = "nil" -> <<"n", "i", "l">>
      [] w = "or" -> <<"o", "r">>                  [] w = "print" -> <<"p", "r", "i", "n", "t">>
      [] w = "return" -> <<"r", "e", "t", "u", "r", "n">>
      [] w = "super" -> <<"s", "u", "p", "e", "r">>
      [] w = "this" -> <<"t", "h", "i", "s">>      [] w = "true" -> <<"t", "r", "u", "e">>
      [] w = "var" -> <<"v", "a", "r">>            [] w = "while" -> <<"w", "h", "i", "l", "e">>

\* the reserved words, with the token type identifier_literal.upper()
ReservedWords ==
    [w \in { "and", "class", "else", "false", "for", "fun", "if", "nil", "or", "print",
             "return", "super", "this", "true", "var", "while" } |->
        CASE w = "and" -> "AND"       [] w = "class" -> "CLASS"   [] w = "else" -> "ELSE"
          [] w = "false" -> "FALSE"   [] w = "for" -> "FOR"       [] w = "fun" -> "FUN"
          [] w = "if" -> "IF"         [] w = "nil" -> "NIL"       [] w = "or" -> "OR"
          [] w = "print" -> "PRINT"   [] w = "return" -> "RETURN" [] w = "super" -> "SUPER"
          [] w = "this" -> "THIS"     [] w = "true" -> "TRUE"     [] w = "var" -> "VAR"
          [] w = "while" -> "WHILE"]

\* the token type of an identifier lexeme
IdentifierType(lexeme) ==
    IF \E w \in DOMAIN ReservedWords : Chars(w) = lexeme
    THEN ReservedWords[CHOOSE w \in DOMAIN ReservedWords : Chars(w) = lexeme]
    ELSE "IDENTIFIER"

\* source_code[from:to], with Python's 0-based bounds
Slice(from, to) == SubSeq(source_code, from + 1, to)

\* `while self.current < len(...) and self.source_code[self.current] in set: self.current += 1`
RECURSIVE SkipWhileIn(_, _)
SkipWhileIn(pos, set) ==
    IF pos < Len(source_code) /\ source_code[pos + 1] \in set THEN SkipWhileIn(pos + 1, set) ELSE pos

\* `while self.current < len(...) and self.source_code[self.current] != stop: self.current += 1`
RECURSIVE SkipUntil(_, _)
SkipUntil(pos, stop) ==
    IF pos < Len(source_code) /\ source_code[pos + 1] # stop THEN SkipUntil(pos + 1, stop) ELSE pos

DigitValue(c) == CHOOSE d \in 0..9 : Digit(d) = c

RECURSIVE DigitsValue(_)
DigitsValue(ds) ==
    IF ds = <<>> THEN 0 ELSE 10 * DigitsValue(SubSeq(ds, 1, Len(ds) - 1)) + DigitValue(ds[Len(ds)])

DotCount(lexeme) == Cardinality({ i \in DOMAIN lexeme : lexeme[i] = "." })

\* float(number_literal) of a lexeme of digits and dots that starts with a
\* digit: a ValueError unless there is at most one dot
float(lexeme) ==
    IF DotCount(lexeme) > 1 THEN Raise("ValueError", EmptyEnvironment)
    ELSE LET dot == CHOOSE i \in DOMAIN lexeme : lexeme[i] = "."
             decimals == IF DotCount(lexeme) = 0 THEN 0 ELSE Len(lexeme) - dot
         IN  Ok(Float(DigitsValue(SelectSeq(lexeme, LAMBDA c : c # ".")), Pow10(decimals)),
                EmptyEnvironment)

ScanPending == pc = "scan" /\ current < Len(source_code)

char == source_code[current + 1]

\* the character after char is "="
FollowedByEqual == current + 1 < Len(source_code) /\ source_code[current + 2] = "="

RestUnchanged ==
    UNCHANGED << command, source_code, expression, statements, frames, ENVIRONMENT, stdout >>

ScanGoesOn == UNCHANGED << stderr, exit_code, pc >>

ScanPunctuation ==
    /\ ScanPending
    /\ char \in DOMAIN Punctuation
    /\ tokens' = Append(tokens, Token(Punctuation[char], <<char>>, None))
    /\ current' = current + 1
    /\ UNCHANGED << line, had_error >>
    /\ ScanGoesOn /\ RestUnchanged

\* "/" is either a division or starts a comment that runs to the end of the line
ScanSlash ==
    /\ ScanPending
    /\ char = "/"
    /\ IF current + 1 < Len(source_code) /\ source_code[current + 2] = "/"
       THEN current' = SkipUntil(current + 1, "\n") /\ tokens' = tokens
       ELSE current' = current + 1 /\ tokens' = Append(tokens, Token("SLASH", <<"/">>, None))
    /\ UNCHANGED << line, had_error >>
    /\ ScanGoesOn /\ RestUnchanged

ScanOperator ==
    /\ ScanPending
    /\ char \in DOMAIN Operators
    /\ IF FollowedByEqual
       THEN /\ tokens' = Append(tokens, Token(Operators[char][2], <<char, "=">>, None))
            /\ current' = current + 2
       ELSE /\ tokens' = Append(tokens, Token(Operators[char][1], <<char>>, None))
            /\ current' = current + 1
    /\ UNCHANGED << line, had_error >>
    /\ ScanGoesOn /\ RestUnchanged

ScanString ==
    /\ ScanPending
    /\ char = "\""
    /\ LET string_start == current + 1
           closing == SkipUntil(string_start, "\"")
       IN  IF closing >= Len(source_code)
           THEN /\ stderr' = Append(stderr, Report(line, "Error: Unterminated string.", <<>>))
                /\ had_error' = TRUE
                /\ current' = closing
                /\ tokens' = tokens
           ELSE /\ current' = closing + 1
                /\ tokens' = Append(tokens,
                                    Token("STRING", <<"\"">> \o Slice(string_start, closing) \o <<"\"">>,
                                          String(Slice(string_start, closing))))
                /\ UNCHANGED << stderr, had_error >>
    /\ UNCHANGED << line, exit_code, pc >>
    /\ RestUnchanged

ScanNumber ==
    /\ ScanPending
    /\ char \in Digits
    /\ LET number_start == current  \* float() may raise ValueError, which nothing catches
           number_end == SkipWhileIn(current + 1, Digits \cup { "." })
           number_literal == Slice(number_start, number_end)
           literal == float(number_literal)
       IN  /\ current' = number_end
           /\ IF literal.status = "ok"
              THEN /\ tokens' = Append(tokens, Token("NUMBER", number_literal, literal.value))
                   /\ ScanGoesOn
              ELSE /\ tokens' = tokens
                   /\ stderr' = Append(stderr, Traceback(literal))
                   /\ exit_code' = 1
                   /\ pc' = "done"
    /\ UNCHANGED << line, had_error >>
    /\ RestUnchanged

ScanIdentifier ==
    /\ ScanPending
    /\ char \in Letters \cup { "_" }
    /\ LET identifier_start == current
           identifier_end == SkipWhileIn(current + 1, Letters \cup Digits \cup { "_" })
           identifier_literal == Slice(identifier_start, identifier_end)
       IN  /\ current' = identifier_end
           /\ tokens' = Append(tokens, Token(IdentifierType(identifier_literal), identifier_literal, None))
    /\ UNCHANGED << line, had_error >>
    /\ ScanGoesOn /\ RestUnchanged

ScanWhitespace ==
    /\ ScanPending
    /\ char \in { " ", "\t", "\r", "\f" }
    /\ current' = current + 1
    /\ UNCHANGED << tokens, line, had_error >>
    /\ ScanGoesOn /\ RestUnchanged

ScanNewline ==
    /\ ScanPending
    /\ char = "\n"
    /\ current' = current + 1
    /\ line' = line + 1
    /\ UNCHANGED << tokens, had_error >>
    /\ ScanGoesOn /\ RestUnchanged

ScanUnexpected ==
    /\ ScanPending
    /\ char \notin DOMAIN Punctuation \cup DOMAIN Operators \cup Digits \cup Letters
                     \cup { "/", "\"", "_", " ", "\t", "\r", "\f", "\n" }
    /\ stderr' = Append(stderr, Report(line, "Error: Unexpected character: ", <<char>>))
    /\ had_error' = TRUE
    /\ current' = current + 1
    /\ UNCHANGED << tokens, line, exit_code, pc >>
    /\ RestUnchanged

EOF == Token("EOF", <<>>, None)

\* Token.__repr__: the type, the lexeme and the literal ("null" for None)
TokenLine(token) ==
    << token.type, token.lexeme,
       CASE token.literal.t = "Nil" -> <<"n", "u", "l", "l">>
         [] token.literal.t = "String" -> token.literal.s
         [] token.literal.t = "Number" -> FloatStr(token.literal) >>

\* the end of Scanner.scan: tokens.append(Token("EOF", "", None)); return.
\* Then main: mode tokenize prints the tokens and exits with 65 if had_error;
\* the other modes exit with 65 if had_error and hand the tokens to the parser.
ScanReturn ==
    /\ pc = "scan"
    /\ current >= Len(source_code)
    /\ tokens' = Append(tokens, EOF)
    /\ IF command = "tokenize"
       THEN /\ stdout' = [i \in 1..Len(tokens') |-> TokenLine(tokens'[i])]
            /\ exit_code' = (IF had_error THEN 65 ELSE 0)
            /\ pc' = "done"
       ELSE /\ stdout' = stdout
            /\ exit_code' = (IF had_error THEN 65 ELSE 0)
            /\ pc' = (IF had_error THEN "done" ELSE "parse")
    /\ UNCHANGED << command, source_code, current, line, had_error, expression, statements,
                    frames, ENVIRONMENT, stderr >>

MaxSource == 4

ScanAlphabet == { "1", ".", "\"", "@", "o", "r", "=", "/", " ", "\n" }

\* the number lexemes of several dots, the lexical errors and the comment of
\* the specification's scenarios
ScanScenarios ==
    { <<"1", ".", "2", ".", "3">>, <<"1", "2", ".">>, <<"\"", "a", "b", "c">>,
      <<"(", "7", "2", "+", "2", "8", ")">>, <<"/", "/", "x", "\n", "y", "_", "1">> }

InitScan ==
    /\ command \in { "tokenize", "run" }
    /\ \/ source_code \in ScanScenarios
       \/ \E n \in 0..MaxSource : source_code \in [1..n -> ScanAlphabet]
    /\ current = 0
    /\ line = 1
    /\ had_error = FALSE
    /\ tokens = <<>>
    /\ expression = LiteralExpression(None)
    /\ statements = <<>>
    /\ frames = <<>>
    /\ ENVIRONMENT = EmptyEnvironment
    /\ stdout = <<>>
    /\ stderr = <<>>
    /\ exit_code = 0
    /\ pc = "scan"

NextScan ==
    \/ ScanPunctuation
    \/ ScanSlash
    \/ ScanOperator
    \/ ScanString
    \/ ScanNumber
    \/ ScanIdentifier
    \/ ScanWhitespace
    \/ ScanNewline
    \/ ScanUnexpected
    \/ ScanReturn

SpecScan == InitScan /\ [][NextScan]_vars

\* Scanner.scan has ended: by returning to main, or by an uncaught exception
ScanEnded == pc # "scan"

ScanReturned == ScanEnded /\ tokens # <<>> /\ tokens[Len(tokens)].type = "EOF"

\* C8: for every source, Scanner.scan ends by returning a token sequence
\* whose last token is EOF (empty lexeme, no literal) and that holds no
\* other EOF token.
C8_ScanEndsWithOneEOF ==
    ScanEnded =>
        /\ tokens # <<>>
        /\ tokens[Len(tokens)] = EOF
        /\ \A i \in 1..(Len(tokens) - 1) : tokens[i].type # "EOF"

(***************************************************************************)
(* Parser.  cur is Parser.current, the 0-based index of the next token:    *)
(* tokens[cur + 1].  A result carries the node parsed, the index after it, *)
(* and how the parse ended: "ok", "exit65" (a message was printed and      *)
(* exit(65) was called), or "raise" (an IndexError escaped).               *)
(***************************************************************************)
Parsed(node, cur) == [status |-> "ok", node |-> node, current |-> cur, err |-> NoError]

Exit65(msg, arg, cur) ==
    [status |-> "exit65", node |-> LiteralExpression(None), current |-> cur,
     err |-> Report(0, msg, arg)]

IndexError(cur) ==
    [status |-> "raise", node |-> LiteralExpression(None), current |-> cur,
     err |-> Report(0, "IndexError", <<>>)]

\* self.tokens[i] for a Python index i >= -1
TokenAt(i) == IF i < 0 THEN tokens[Len(tokens)] ELSE tokens[i + 1]

TypeAt(cur) == tokens[cur + 1].type

\* Parser.consume
consume(type, cur) ==
    IF cur < Len(tokens) /\ TypeAt(cur) = type THEN Parsed(tokens[cur + 1], cur + 1)
    ELSE IF cur - 1 >= Len(tokens) THEN IndexError(cur)
    ELSE Exit65("Error at : Expected", TokenAt(cur - 1).lexeme \o <<" ">> \o <<type>>, cur)

\* The four binary levels of the grammar, parse_equality, parse_comparison,
\* parse_term and parse_factor, are one method text with its own operator
\* types and its own operand parser: level 1 is parse_equality, level 4 is
\* parse_factor, whose operands parse_unary parses.
\* a faulty variant: parse_term takes the factor operators and parse_factor the term operators
LevelOperatorsTermFactorSwapped(level) ==
    CASE level = 1 -> { "BANG_EQUAL", "EQUAL_EQUAL" }
      [] level = 2 -> { "GREATER", "GREATER_EQUAL", "LESS", "LESS_EQUAL" }
      [] level = 3 -> { "STAR", "SLASH" }
      [] level = 4 -> { "PLUS", "MINUS" }

LevelOperators(level) ==
    CASE level = 1 -> { "BANG_EQUAL", "EQUAL_EQUAL" }
      [] level = 2 -> { "GREATER", "GREATER_EQUAL", "LESS", "LESS_EQUAL" }
      [] level = 3 -> { "PLUS", "MINUS" }
      [] level = 4 -> { "STAR", "SLASH" }

\* expression = BinaryExpression(token, expression, right)
Accumulate(token, left, right) == BinaryExpression(token, left, right)

\* r, unless r is a result: then what Continue makes of it.  An error
\* ends the parse wherever it occurs.
Then(r, Continue(_)) == IF r.status # "ok" THEN r ELSE Continue(r)

RECURSIVE parse_primary(_), parse_unary(_), parse_binary(_, _), binary_loop(_, _, _),
          parse_assignment(_)

parse_expression(cur) == parse_assignment(cur)

parse_primary(cur) ==
    IF cur >= Len(tokens) THEN IndexError(cur)
    ELSE LET token == tokens[cur + 1]
         IN  CASE token.type = "TRUE" -> Parsed(LiteralExpression(Bool(TRUE)), cur + 1)
               [] token.type = "FALSE" -> Parsed(LiteralExpression(Bool(FALSE)), cur + 1)
               [] token.type = "NIL" -> Parsed(LiteralExpression(None), cur + 1)
               [] token.type \in { "NUMBER", "STRING" } ->
                    Parsed(LiteralExpression(token.literal), cur + 1)
               [] token.type = "LEFT_PAREN" ->
                    Then(parse_expression(cur + 1),
                         LAMBDA e : Then(consume("RIGHT_PAREN", e.current),
                                         LAMBDA closing :
                                             Parsed(GroupExpression(e.node), closing.current)))
               [] token.type = "IDENTIFIER" -> Parsed(VariableExpression(token.lexeme), cur + 1)
               [] OTHER -> Exit65("Error at : Expect expression.", token.lexeme, cur + 1)

parse_unary(cur) ==
    IF cur >= Len(tokens) THEN IndexError(cur)
    ELSE IF TypeAt(cur) \in { "BANG", "MINUS" }
         THEN Then(parse_unary(cur + 1),
                   LAMBDA e : Parsed(UnaryExpression(tokens[cur + 1], e.node), e.current))
         ELSE parse_primary(cur)

\* the operand parser of a binary level: the next level, or parse_unary
parse_operand(level, cur) == IF level = 4 THEN parse_unary(cur) ELSE parse_binary(level + 1, cur)

\* the while loop of a binary level, `expression` and `current` as they stand
binary_loop(level, left, cur) ==
    IF cur < Len(tokens) /\ TypeAt(cur) \in LevelOperators(level)
    THEN Then(parse_operand(level, cur + 1),
              LAMBDA right : binary_loop(level, Accumulate(tokens[cur + 1], left, right.node),
                                         right.current))
    ELSE Parsed(left, cur)

parse_binary(level, cur) ==
    Then(parse_operand(level, cur), LAMBDA e : binary_loop(level, e.node, e.current))

parse_factor(cur) == parse_binary(4, cur)

parse_term(cur) == parse_binary(3, cur)

parse_comparison(cur) == parse_binary(2, cur)

parse_equality(cur) == parse_binary(1, cur)

\* after "=": a Variable on the left makes an assignment of the rest; any
\* other left side is returned as it is, the "=" consumed
AfterEquality(e) ==
    IF e.current < Len(tokens) /\ TypeAt(e.current) = "EQUAL"
    THEN IF e.node.kind = "Variable"
         THEN Then(parse_assignment(e.current + 1),
                   LAMBDA right : Parsed(AssignmentExpression(e.node.name, right.node),
                                         right.current))
         ELSE Parsed(e.node, e.current + 1)
    ELSE e

parse_assignment(cur) == Then(parse_equality(cur), AfterEquality)

RECURSIVE parse_statement(_), block_loop(_, _)

\* Parser.parse_block: the statements up to "}", collected in stmts so far
block_loop(stmts, cur) ==
    IF cur < Len(tokens) /\ TypeAt(cur) # "RIGHT_BRACE"
    THEN Then(parse_statement(cur), LAMBDA st : block_loop(Append(stmts, st.node), st.current))
    ELSE Then(consume("RIGHT_BRACE", cur), LAMBDA closing : Parsed(stmts, closing.current))

parse_block(cur) == block_loop(<<>>, cur)

\* `self.consume("SEMICOLON")` after the expression e, then the statement
ThenSemicolon(e, Make(_)) ==
    Then(consume("SEMICOLON", e.current), LAMBDA semicolon : Parsed(Make(e.node), semicolon.current))

\* the statement of the token at cur, and where its expression starts
StatementStart(cur) ==
    CASE TypeAt(cur) = "PRINT" -> [kind |-> "Print", at |-> cur + 1]
      [] TypeAt(cur) = "VAR" -> [kind |-> "VarDecl", at |-> cur + 1]
      [] TypeAt(cur) = "LEFT_BRACE" -> [kind |-> "Block", at |-> cur + 1]
      [] OTHER -> [kind |-> "Expression", at |-> cur]

\* `var` IDENTIFIER, then either ";" or "=" and the initializer
VarInitializer(identifer) ==
    IF identifer.current >= Len(tokens) THEN IndexError(identifer.current)
    ELSE IF TypeAt(identifer.current) # "EQUAL"
         THEN Parsed([has_init |-> FALSE, expression |-> LiteralExpression(None)],
                     identifer.current)
         ELSE Then(parse_expression(identifer.current + 1),
                   LAMBDA e : Parsed([has_init |-> TRUE, expression |-> e.node], e.current))

parse_statement(cur) ==
    IF cur >= Len(tokens) THEN IndexError(cur)
    ELSE LET start == StatementStart(cur)
         IN  CASE start.kind = "Block" ->
                    Then(parse_block(start.at),
                         LAMBDA block : Parsed(BlockStatement(block.node), block.current))
               [] start.kind = "VarDecl" ->
                    Then(consume("IDENTIFIER", start.at),
                         LAMBDA identifer :
                             Then(VarInitializer(identifer),
                                  LAMBDA init :
                                      ThenSemicolon(init,
                                          LAMBDA i : VariableDeclarationStatement(
                                                         identifer.node.lexeme, i.has_init,
                                                         i.expression))))
               [] OTHER ->
                    Then(parse_expression(start.at),
                         LAMBDA e : ThenSemicolon(e, LAMBDA x : IF start.kind = "Print"
                                                                THEN PrintStatement(x)
                                                                ELSE ExpressionStatement(x)))

\* Parser.parse_statements: the statements up to EOF
RECURSIVE statements_loop(_, _)
statements_loop(stmts, cur) ==
    IF cur >= Len(tokens) THEN IndexError(cur)
    ELSE IF TypeAt(cur) # "EOF"
         THEN Then(parse_statement(cur),
                   LAMBDA st : statements_loop(Append(stmts, st.node), st.current))
         ELSE Parsed(stmts, cur)

parse_statements == statements_loop(<<>>, 0)

(***************************************************************************)
(* Expression.__str__, which mode parse prints.                            *)
(***************************************************************************)
RECURSIVE str(_)
str(e) ==
    CASE e.kind = "Literal" ->
           (CASE e.value.t \in { "Bool", "Nil" } -> lox_representation(e.value)
              [] e.value.t = "Number" -> FloatStr(e.value)
              [] e.value.t = "String" -> e.value.s)
      [] e.kind = "Variable" ->
           <<"(", "i", "d", "e", "n", "t", "i", "f", "i", "e", "r", " ">> \o e.name \o <<")">>
      [] e.kind = "Group" -> <<"(", "g", "r", "o", "u", "p", " ">> \o str(e.expression) \o <<")">>
      [] e.kind = "Unary" -> <<"(">> \o e.operator.lexeme \o <<" ">> \o str(e.expression) \o <<")">>
      [] e.kind = "Binary" ->
           <<"(">> \o e.operator.lexeme \o <<" ">> \o str(e.left) \o <<" ">> \o str(e.right) \o <<")">>
      [] e.kind = "Assignment" ->
           <<"(", "a", "s", "s", "i", "g", "n", "m", "e", "n", "t", " ">> \o e.name \o <<" ">>
             \o str(e.expression) \o <<")">>

(***************************************************************************)
(* main after the scan, modes parse, evaluate and run: the parse.          *)
(***************************************************************************)
\* what main does with the outcome r of the parse: go on, exit(65), or die
\* of the uncaught exception
ParseOutcome(r, out, next_expression, next_statements, next_pc) ==
    /\ CASE r.status = "ok" ->
              /\ stdout' = stdout \o out
              /\ expression' = next_expression
              /\ statements' = next_statements
              /\ frames' = (IF next_pc = "run" THEN << Frame(next_statements, EmptyEnvironment) >>
                            ELSE frames)
              /\ pc' = next_pc
              /\ UNCHANGED << stderr, exit_code >>
         [] r.status = "exit65" ->
              /\ stderr' = Append(stderr, r.err)
              /\ exit_code' = 65
              /\ pc' = "done"
              /\ UNCHANGED << stdout, expression, statements, frames >>
         [] r.status = "raise" ->
              /\ stderr' = Append(stderr, Traceback(r))
              /\ exit_code' = 1
              /\ pc' = "done"
              /\ UNCHANGED << stdout, expression, statements, frames >>
    /\ UNCHANGED << command, ScannerVars, ENVIRONMENT >>

\* mode parse: expression = Parser(tokens).parse_expression(); print(expression); return
ParseModeParse ==
    /\ pc = "parse"
    /\ command = "parse"
    /\ LET r == parse_expression(0)
       IN  ParseOutcome(r, << str(r.node) >>, r.node, statements, "done")

\* mode evaluate: expression = Parser(tokens).parse_expression()
EvaluateModeParse ==
    /\ pc = "parse"
    /\ command = "evaluate"
    /\ LET r == parse_expression(0)
       IN  ParseOutcome(r, <<>>, r.node, statements, "evaluate")

\* mode run: statements = Parser(tokens).parse_statements()
RunModeParse ==
    /\ pc = "parse"
    /\ command = "run"
    /\ LET r == parse_statements
       IN  ParseOutcome(r, <<>>, expression, r.node, "run")

(***************************************************************************)
(* Inputs of the parser: the token sequences the scanner hands over.       *)
(***************************************************************************)
MaxTokens == 3

MaxOperators == 2

A == <<"a">>

OperandTokens == { Token("IDENTIFIER", A, None), Token("NUMBER", <<"1">>, Float(1, 1)) }

AssignToken == Tok("EQUAL", <<"=">>)

ChainOperators == BinaryOperators \cup { AssignToken }

TokenVocabulary ==
    OperandTokens
      \cup { Tok("NIL", <<"n", "i", "l">>), AssignToken, Tok("EQUAL_EQUAL", <<"=", "=">>),
             Tok("LESS", <<"<">>), Tok("PLUS", <<"+">>), Tok("STAR", <<"*">>),
             Tok("MINUS", <<"-">>), Tok("BANG", <<"!">>),
             Tok("LEFT_PAREN", <<"(">>), Tok("RIGHT_PAREN", <<")">>),
             Tok("SEMICOLON", <<";">>), Tok("PRINT", <<"p", "r", "i", "n", "t">>),
             Tok("VAR", <<"v", "a", "r">>), Tok("LEFT_BRACE", <<"{">>),
             Tok("RIGHT_BRACE", <<"}">>) }

\* operand (operator operand)*, with at most n operators
RECURSIVE Chains(_)
Chains(n) ==
    IF n = 0 THEN { <<t>> : t \in OperandTokens }
    ELSE Chains(n - 1)
           \cup { c \o <<op, t>> : c \in { d \in Chains(n - 1) : Len(d) = 2 * n - 1 },
                                   op \in ChainOperators, t \in OperandTokens }

\* every token sequence of at most MaxTokens tokens, and every chain of
\* operands and at most MaxOperators operators, each ended by EOF
ParserInputs ==
    { ts \o <<EOF>> :
        ts \in UNION { [1..n -> TokenVocabulary] : n \in 0..MaxTokens } \cup Chains(MaxOperators) }

InitParse ==
    /\ command \in { "parse", "evaluate", "run" }
    /\ source_code = <<>>
    /\ current = 0
    /\ line = 1
    /\ had_error = FALSE
    /\ tokens \in ParserInputs
    /\ expression = LiteralExpression(None)
    /\ statements = <<>>
    /\ frames = <<>>
    /\ ENVIRONMENT = EmptyEnvironment
    /\ stdout = <<>>
    /\ stderr = <<>>
    /\ exit_code = 0
    /\ pc = "parse"

NextParse ==
    \/ ParseModeParse
    \/ EvaluateModeParse
    \/ RunModeParse
    \/ Next

SpecParse == InitParse /\ [][NextParse]_vars

(***************************************************************************)
(* Properties of the parser.                                               *)
(***************************************************************************)
\* the parser, started at token start, parses a left side that is not a
\* Variable and then stands at "="
NonVariableLeftOfEqual(start) ==
    LET e == parse_equality(start)
    IN  /\ e.status = "ok"
        /\ e.node.kind # "Variable"
        /\ e.current < Len(tokens)
        /\ TypeAt(e.current) = "EQUAL"

\* the input starts with an expression (in mode run: an expression or print
\* statement) whose left side is not a Variable and is followed by "="
InvalidAssignmentTarget ==
    /\ tokens # <<>>
    /\ IF command = "run"
       THEN \/ TypeAt(0) \notin { "PRINT", "VAR", "LEFT_BRACE", "EOF" } /\ NonVariableLeftOfEqual(0)
            \/ TypeAt(0) = "PRINT" /\ NonVariableLeftOfEqual(1)
       ELSE NonVariableLeftOfEqual(0)

\* C5: once the parser has met "=" after a left side that is not a Variable,
\* the program has ended with exit code 65: no AST was returned, nothing was
\* printed, evaluated or executed.
C5_InvalidAssignmentTargetRejected ==
    (pc # "parse" /\ InvalidAssignmentTarget) =>
        pc = "done" /\ exit_code = 65 /\ stdout = <<>>

\* the precedence level of an operator token: 0 for "=", 1 equality,
\* 2 comparison, 3 term, 4 factor
Level(token) ==
    CASE token \in EqualityOperators -> 1
      [] token \in ComparisonOperators -> 2
      [] token \in TermOperators -> 3
      [] token \in FactorOperators -> 4
      [] OTHER -> 0

\* the primary expression of an operand token
Operand(token) ==
    IF token.type = "IDENTIFIER" THEN VariableExpression(token.lexeme)
    ELSE LiteralExpression(token.literal)

\* tokens is x op1 y op2 z EOF
IsChainOfThree ==
    /\ Len(tokens) = 6
    /\ \A i \in { 1, 3, 5 } : tokens[i] \in OperandTokens
    /\ \A i \in { 2, 4 } : tokens[i] \in ChainOperators
    /\ tokens[6] = EOF

\* every "=" of the chain has a Variable to its left
ChainTargetsAreVariables ==
    /\ Level(tokens[2]) = 0 => tokens[1].type = "IDENTIFIER"
    /\ Level(tokens[4]) = 0 => Level(tokens[2]) = 0 /\ tokens[3].type = "IDENTIFIER"

\* the tree of x op1 y op2 z: left-nested on one level, right-nested for
\* "=", the operator of the higher level binding tighter
ChainTree ==
    LET x == Operand(tokens[1])
        y == Operand(tokens[3])
        z == Operand(tokens[5])
        op1 == tokens[2]
        op2 == tokens[4]
        Apply(op, l, r) == IF Level(op) = 0 THEN AssignmentExpression(l.name, r)
                           ELSE BinaryExpression(op, l, r)
    IN  IF Level(op1) = 0 \/ Level(op1) < Level(op2)
        THEN Apply(op1, x, Apply(op2, y, z))
        ELSE Apply(op2, Apply(op1, x, y), z)

\* C9: in modes parse and evaluate, x op1 y op2 z parses to
\* Binary(op2, Binary(op1, x, y), z) when op1 and op2 are binary operators of
\* one level or op1 is of the higher level, to Binary(op1, x, Binary(op2, y, z))
\* when op2 is of the higher level, and with "=" to Assign(x, Assign(y, z)),
\* respectively Assign(x, Binary(op2, y, z)); mode parse prints that tree.
C9_AssociativityAndPrecedence ==
    (/\ command \in { "parse", "evaluate" }
     /\ pc # "parse"
     /\ IsChainOfThree
     /\ ChainTargetsAreVariables) =>
        /\ expression = ChainTree
        /\ exit_code # 65
        /\ command = "parse" => stdout = << str(ChainTree) >> /\ exit_code = 0

\* a - 1 + 1 was parsed in mode parse to (+ (- a 1) 1)
C9_Witness_LeftNestedTerm ==
    /\ command = "parse" /\ pc = "done" /\ exit_code = 0
    /\ IsChainOfThree
    /\ tokens[2].type = "MINUS" /\ tokens[4].type = "PLUS"
    /\ expression.kind = "Binary" /\ expression.operator.type = "PLUS"
    /\ expression.left.kind = "Binary" /\ expression.left.operator.type = "MINUS"
    /\ expression.left.left = VariableExpression(A)

\* the S-expression of e by the stated rules: a literal as Expression.__str__
\* prints it, (group e), (op e), (op l r), a variable as its bare name, an
\* assignment as (= n e)
RECURSIVE SExpression(_)
SExpression(e) ==
    CASE e.kind = "Literal" -> str(e)
      [] e.kind = "Variable" -> e.name
      [] e.kind = "Group" ->
           <<"(", "g", "r", "o", "u", "p", " ">> \o SExpression(e.expression) \o <<")">>
      [] e.kind = "Unary" ->
           <<"(">> \o e.operator.lexeme \o <<" ">> \o SExpression(e.expression) \o <<")">>
      [] e.kind = "Binary" ->
           <<"(">> \o e.operator.lexeme \o <<" ">> \o SExpression(e.left) \o <<" ">>
             \o SExpression(e.right) \o <<")">>
      [] e.kind = "Assignment" ->
           <<"(", "=", " ">> \o e.name \o <<" ">> \o SExpression(e.expression) \o <<")">>

\* mode parse has parsed an expression and returned
PrintedInParseMode == command = "parse" /\ pc = "done" /\ exit_code = 0

\* C11: once mode parse has parsed an expression, the one line it has printed
\* is the S-expression of that expression by the stated rules: (group e),
\* (op e), (op l r), a variable as its bare name n, an assignment as (= n e).
C11_ParseModePrintsSExpression ==
    PrintedInParseMode => stdout = << SExpression(expression) >>

====
